---- MODULE Spec2Model ----
(***************************************************************************)
(* One invocation of the nemlig.com command-line client (nemlig_cli.py):   *)
(* main() logs in with a five-request handshake, runs one subcommand       *)
(* against the remote service and maps the outcome to an exit code.        *)
(* Every HTTP round-trip is one action; the remote service's answer is     *)
(* drawn from a small set of responses.                                    *)
(***************************************************************************)
EXTENDS Integers, Sequences, FiniteSets, TLC

VARIABLES
    pc,            \* the request main() is about to issue, or "done"
    args,          \* the parsed command line (argparse.Namespace)
    reqs,          \* every HTTP request sent so far, in order
    lastResp,      \* the response to the last request
    tokens_issued, \* the token values the service has handed out, in order
    nextId,        \* uuid.uuid4(): the next fresh value
    headers,       \* login(): the local dict `headers`
    xsrf_token,    \* login(): local
    bearer_token,  \* login(): local
    auth,          \* main(): the AuthTokens login() returned
    ps_headers,    \* get_page_settings(): the local dict `headers`
    settings,      \* get_page_settings(): what get_app_settings() returned
    page_settings, \* search_products() / get_product_details(): local
    ret,           \* the caller get_page_settings() returns to
    products,      \* what search_products() returned
    product_url,   \* get_product_details(): local
    orders,        \* cmd_history(): local
    order,         \* cmd_history(): the order found by the scan
    result,        \* what the command's last API operation returned
    returned,      \* the operations that have returned normally
    raised,        \* the exception that ended the run ("" if none)
    caught,        \* the except clause that handled it ("" if none)
    exit_code,     \* the value main() returned to sys.exit (-1 while running)
    fmt_in,        \* presenter: the record given to a format function
    fmt_out        \* presenter: what the format function produced

vars == <<pc, args, reqs, lastResp, tokens_issued, nextId, headers, xsrf_token,
          bearer_token, auth, ps_headers, settings, page_settings, ret,
          products, product_url, orders, order, result, returned, raised,
          caught, exit_code, fmt_in, fmt_out>>

loginLocals == <<headers, xsrf_token, bearer_token>>
pageLocals  == <<ps_headers, settings, page_settings, ret>>
cmdLocals   == <<products, product_url, orders, order, result>>
fmtVars     == <<fmt_in, fmt_out>>

-----------------------------------------------------------------------------
(* Bounds of the model *)

\* longest product list a search response carries
MaxProducts == 2
\* longest content list a product page carries
MaxContent == 2
\* longest order list a history response carries
MaxOrders == 101

-----------------------------------------------------------------------------
(* Python dicts: functions over string keys *)

EmptyDict == << >>

\* dict.get(k, default)
Get(d, k, default) == IF k \in DOMAIN d THEN d[k] ELSE default

\* d[k] = v
Put(d, k, v) == (k :> v) @@ d

-----------------------------------------------------------------------------
(* Constants of the program *)

BASE_URL == "https://www.nemlig.com"
SEARCH_API_URL == "https://webapi.prod.knl.nemlig.it/searchgateway/api"
MAX_ORDER_HISTORY_LOOKUP == 100

\* get_common_headers(): uuid is the value uuid.uuid4() produced for the call
get_common_headers(uuid) ==
    ("Accept" :> "application/json, text/plain, */*")
    @@ ("Content-Type" :> "application/json")
    @@ ("User-Agent" :> "Mozilla/5.0 (X11; Linux x86_64) AppleWebKit/537.36 (KHTML, like Gecko) Chrome/136.0.0.0 Safari/537.36")
    @@ ("Device-Size" :> "desktop")
    @@ ("Platform" :> "web")
    @@ ("Version" :> "11.201.0")
    @@ ("X-Correlation-Id" :> uuid)

\* f"Bearer {bearer_token}"
Bearer(token) == "Bearer " \o token

-----------------------------------------------------------------------------
(* The remote service: status codes and bodies it may answer with *)

StatusCodes == {200, 304, 404, 500}

\* the statuses the service sends with a JSON body of the endpoint's kind
BodyStatusCodes == {200, 304}

\* a response with a JSON body, or with a body that is no JSON (an error
\* page, an empty body)
Responses(bodies) ==
    {[status |-> s, json |-> TRUE, body |-> b] :
        s \in BodyStatusCodes, b \in bodies}
    \cup {[status |-> s, json |-> FALSE, body |-> EmptyDict] : s \in StatusCodes}

NoResponse == [status |-> 0, json |-> FALSE, body |-> EmptyDict]

XsrfTokens == {"x1", "x2"}
BearerTokens == {"b1", "b2"}

\* The program never looks inside a token, so which value the service hands
\* out first does not matter: before login it hands out the first of each
\* kind, after login either the same value again or the other one.
AntiForgeryBodies(toks) == {[Value |-> t] : t \in toks} \cup {EmptyDict}
TokenBodies(toks) == {[access_token |-> t] : t \in toks} \cup {EmptyDict}
LoginBodies == {[RedirectUrl |-> "/"], [RedirectUrl |-> ""],
                [Error |-> "bad credentials"]}

\* requests.Response.raise_for_status(): raises HTTPError for 4xx and 5xx
RaisesForStatusNo5xx(status) == 400 <= status /\ status < 500
RaisesForStatus(status) == 400 <= status /\ status < 600

\* resp.raise_for_status(); data = resp.json(); data[k] for k in keys:
\* the exception this raises, "" if none
ResponseError(resp, keys) ==
    IF RaisesForStatus(resp.status) THEN "HTTPError"
    ELSE IF ~resp.json THEN "JSONDecodeError"
    ELSE IF \E k \in keys : k \notin DOMAIN resp.body THEN "KeyError"
    ELSE ""

-----------------------------------------------------------------------------
(* Requests *)

Request(method, url, hdrs, params, json) ==
    [method |-> method, url |-> url, headers |-> hdrs, params |-> params,
     json |-> json]

\* session.get / session.post: the request goes out, the response comes back
Send(req, resp) ==
    /\ reqs' = Append(reqs, req)
    /\ lastResp' = resp

-----------------------------------------------------------------------------
(* main(): how a run ends *)

\* the except clause of main() that handles exception e
MainHandler(e) == IF e = "HTTPError" THEN "HTTPError" ELSE "Exception"

\* an exception propagates to main(): diagnostic on stderr, return 1
Fail(e) ==
    /\ pc' = "done"
    /\ raised' = e
    /\ caught' = MainHandler(e)
    /\ exit_code' = 1

\* the command handler returns code; main() returns it
Return(code) ==
    /\ pc' = "done"
    /\ exit_code' = code
    /\ UNCHANGED <<raised, caught>>

\* the run goes on with the request p
Continue(p) ==
    /\ pc' = p
    /\ UNCHANGED <<raised, caught, exit_code>>

\* the first request of each subcommand (main(), lines 723-735)
FirstRequest(a) ==
    CASE a.command = "search"  -> "AppSettings"
      [] a.command = "details" -> "AppSettings"
      [] a.command = "basket"  -> "GetBasket"
      [] a.command = "add"     -> "AddToBasket"
      [] a.command = "history" -> "OrderHistory"

-----------------------------------------------------------------------------
(* login() *)

NoAuth == [xsrf_token |-> "", bearer_token |-> ""]

\* AuthTokens(xsrf_token=..., bearer_token=..., session=session)
AuthTokens(xsrf, bearer) == [xsrf_token |-> xsrf, bearer_token |-> bearer]

login_payload(username, password) ==
    [Username |-> username, Password |-> password,
     CheckForExistingProducts |-> TRUE, DoMerge |-> TRUE,
     AppInstalled |-> FALSE, SaveExistingBasket |-> FALSE]

\* "RedirectUrl" not in login_result
LoginFailed(login_result) == "RedirectUrl" \notin DOMAIN login_result

\* bearer_token = token_data["access_token"] after login (line 120)
StaleBearer(old, token_data) == old
FreshBearer(old, token_data) == token_data["access_token"]

\* xsrf_token = xsrf_data["Value"] after login (line 126)
FreshXsrf(old, xsrf_data) == xsrf_data["Value"]

\* Step 1: Get XSRF token
AntiForgery1 ==
    /\ pc = "AntiForgery1"
    /\ \E resp \in Responses(AntiForgeryBodies({"x1"})) :
        LET h == get_common_headers(nextId)
            exc == ResponseError(resp, {"Value"})
        IN  /\ Send(Request("GET", BASE_URL \o "/webapi/AntiForgery", h,
                            EmptyDict, EmptyDict), resp)
            /\ nextId' = nextId + 1
            /\ headers' = h
            /\ IF exc # ""
               THEN /\ Fail(exc)
                    /\ UNCHANGED <<xsrf_token, tokens_issued>>
               ELSE /\ Continue("Token1")
                    /\ xsrf_token' = resp.body["Value"]
                    /\ tokens_issued' = Append(tokens_issued, resp.body["Value"])
    /\ UNCHANGED <<args, bearer_token, auth, pageLocals, cmdLocals, returned,
                   fmtVars>>

\* Step 2: Get Bearer token
Token1 ==
    /\ pc = "Token1"
    /\ \E resp \in Responses(TokenBodies({"b1"})) :
        LET h == Put(headers, "X-Correlation-Id", nextId)
            exc == ResponseError(resp, {"access_token"})
        IN  /\ Send(Request("GET", BASE_URL \o "/webapi/Token", h,
                            EmptyDict, EmptyDict), resp)
            /\ nextId' = nextId + 1
            /\ headers' = h
            /\ IF exc # ""
               THEN /\ Fail(exc)
                    /\ UNCHANGED <<bearer_token, tokens_issued>>
               ELSE /\ Continue("Login")
                    /\ bearer_token' = resp.body["access_token"]
                    /\ tokens_issued' =
                           Append(tokens_issued, resp.body["access_token"])
    /\ UNCHANGED <<args, xsrf_token, auth, pageLocals, cmdLocals, returned,
                   fmtVars>>

\* Step 3: Login
Login ==
    /\ pc = "Login"
    /\ \E resp \in Responses(LoginBodies) :
        LET h == Put(Put(Put(Put(headers,
                     "X-Correlation-Id", nextId),
                     "X-XSRF-TOKEN", xsrf_token),
                     "Authorization", Bearer(bearer_token)),
                     "Referer", BASE_URL \o "/login?returnUrl=%2F")
            exc == ResponseError(resp, {})
        IN  /\ Send(Request("POST", BASE_URL \o "/webapi/login", h, EmptyDict,
                            login_payload(args.username, args.password)), resp)
            /\ nextId' = nextId + 1
            /\ headers' = h
            /\ IF exc # "" THEN Fail(exc)
               ELSE IF LoginFailed(resp.body) THEN Fail("Exception")
               ELSE Continue("Token2")
    /\ UNCHANGED <<args, tokens_issued, xsrf_token, bearer_token, auth,
                   pageLocals, cmdLocals, returned, fmtVars>>

\* Get fresh tokens after login
Token2 ==
    /\ pc = "Token2"
    /\ \E resp \in Responses(TokenBodies(BearerTokens)) :
        LET h == Put(headers, "X-Correlation-Id", nextId)
            exc == ResponseError(resp, {"access_token"})
        IN  /\ Send(Request("GET", BASE_URL \o "/webapi/Token", h,
                            EmptyDict, EmptyDict), resp)
            /\ nextId' = nextId + 1
            /\ headers' = h
            /\ IF exc # ""
               THEN /\ Fail(exc)
                    /\ UNCHANGED <<bearer_token, tokens_issued>>
               ELSE /\ Continue("AntiForgery2")
                    /\ bearer_token' = FreshBearer(bearer_token, resp.body)
                    /\ tokens_issued' =
                           Append(tokens_issued, resp.body["access_token"])
    /\ UNCHANGED <<args, xsrf_token, auth, pageLocals, cmdLocals, returned,
                   fmtVars>>

\* Get fresh XSRF token; login() returns and main() dispatches the subcommand
AntiForgery2 ==
    /\ pc = "AntiForgery2"
    /\ \E resp \in Responses(AntiForgeryBodies(XsrfTokens)) :
        LET exc == ResponseError(resp, {"Value"})
        IN  /\ Send(Request("GET", BASE_URL \o "/webapi/AntiForgery", headers,
                            EmptyDict, EmptyDict), resp)
            /\ IF exc # ""
               THEN /\ Fail(exc)
                    /\ UNCHANGED <<xsrf_token, tokens_issued, auth, returned>>
               ELSE /\ Continue(FirstRequest(args))
                    /\ xsrf_token' = FreshXsrf(xsrf_token, resp.body)
                    /\ tokens_issued' = Append(tokens_issued, resp.body["Value"])
                    /\ auth' = AuthTokens(xsrf_token', bearer_token)
                    /\ returned' = returned \cup {"login"}
    /\ UNCHANGED <<args, nextId, headers, bearer_token, pageLocals, cmdLocals,
                   fmtVars>>

-----------------------------------------------------------------------------
(* Values shared by the API client *)

\* Python's None, where a string was expected
None == "<None>"

\* truth value of an optional string: None and "" are falsy
Truthy(v) == v # None /\ v # ""

\* d.get(k) == v, for a v that is not None
KeyEquals(d, k, v) == k \in DOMAIN d /\ d[k] = v

\* the least element of a non-empty set of indices
Least(S) == CHOOSE i \in S : \A j \in S : i <= j

\* sequences over S of length at most n
SeqsUpTo(S, n) == UNION {[1..k -> S] : k \in 0..n}

\* headers = get_common_headers(); headers["Authorization"] = ...;
\* headers["X-XSRF-TOKEN"] = ...   (uuid: the value uuid4() produced)
NoXsrfHeaders(a, uuid) ==
    Put(get_common_headers(uuid), "Authorization", Bearer(a.bearer_token))
AuthHeaders(a, uuid) ==
    Put(Put(get_common_headers(uuid),
        "Authorization", Bearer(a.bearer_token)),
        "X-XSRF-TOKEN", a.xsrf_token)

-----------------------------------------------------------------------------
(* get_app_settings(), get_page_settings() *)

AppSettingsBodies ==
    {[CombinedProductsAndSitecoreTimestamp |-> "ts1"], EmptyDict}

PageBodies ==
    {EmptyDict,
     [Settings |-> EmptyDict],
     [Settings |-> [TimeslotUtc |-> ""]],
     [Settings |-> [TimeslotUtc |-> "2025120310-60-600", DeliveryZoneId |-> 2,
                    UserId |-> "u1"]]}

\* the dict get_page_settings() returns (lines 150, 158-167)
PageSettings(app, data) ==
    LET ps == Get(data, "Settings", EmptyDict)
        timeslot_utc == IF Truthy(Get(ps, "TimeslotUtc", None))
                        THEN ps["TimeslotUtc"]
                        ELSE "2025120216-180-1020"
    IN  [timestamp |-> Get(app, "CombinedProductsAndSitecoreTimestamp", ""),
         timeslotUtc |-> timeslot_utc,
         deliveryZoneId |-> Get(ps, "DeliveryZoneId", 1),
         userId |-> Get(ps, "UserId", "")]

\* get_page_settings() up to and including get_app_settings()
AppSettings ==
    /\ pc = "AppSettings"
    /\ \E resp \in Responses(AppSettingsBodies) :
        LET exc == ResponseError(resp, {})
        IN  /\ ps_headers' = AuthHeaders(auth, nextId)
            /\ Send(Request("GET", BASE_URL \o "/webapi/v2/AppSettings/Website",
                            AuthHeaders(auth, nextId + 1), EmptyDict,
                            EmptyDict), resp)
            /\ nextId' = nextId + 2
            /\ IF exc # ""
               THEN Fail(exc) /\ UNCHANGED settings
               ELSE Continue("Page") /\ settings' = resp.body
    /\ UNCHANGED <<args, tokens_issued, loginLocals, auth, page_settings, ret,
                   cmdLocals, returned, fmtVars>>

\* get_page_settings(): the page JSON which contains timeslot info
Page ==
    /\ pc = "Page"
    /\ \E resp \in Responses(PageBodies) :
        LET exc == ResponseError(resp, {})
        IN  /\ Send(Request("GET", BASE_URL \o "/", ps_headers,
                            [GetAsJson |-> "1", d |-> "1"], EmptyDict), resp)
            /\ IF exc # ""
               THEN Fail(exc) /\ UNCHANGED page_settings
               ELSE /\ Continue(ret)
                    /\ page_settings' = PageSettings(settings, resp.body)
    /\ UNCHANGED <<args, tokens_issued, nextId, loginLocals, auth, ps_headers,
                   settings, ret, cmdLocals, returned, fmtVars>>

-----------------------------------------------------------------------------
(* Presenter: format_product() *)

\* JSON null where a dict was expected
Null == [json_null |-> TRUE]

\* f"{x:.2f}" of an amount x held in minor units (1/100)
Fmt2f(c) ==
    LET a == IF c < 0 THEN -c ELSE c
        frac == a % 100
    IN  (IF c < 0 THEN "-" ELSE "") \o ToString(a \div 100) \o "."
        \o (IF frac < 10 THEN "0" ELSE "") \o ToString(frac)

NoOutput == [raised |-> "", text |-> ""]

\* format_product(): the line built, or the exception raised
format_product_unnamed(product) ==
    LET price == Get(product, "Price", 0)
        name == Get(product, "Name", "")
        brand == Get(product, "Brand", "")
        description == Get(product, "Description", "")
        product_id == Get(product, "Id", "")
        image_url == Get(product, "PrimaryImage", "")
        availability == Get(product, "Availability", EmptyDict)
    IN  IF availability = Null
        THEN [raised |-> "AttributeError", text |-> ""]
        ELSE
          LET available == Get(availability, "IsAvailableInStock", FALSE)
              availability_str == IF available THEN "In stock"
                                  ELSE "OUT OF STOCK"
              line == "  [" \o product_id \o "] " \o name \o " (" \o brand
                      \o ") - " \o Fmt2f(price) \o " kr - " \o description
                      \o " [" \o availability_str \o "]"
          IN  [raised |-> "",
               text |-> IF image_url # ""
                        THEN line \o "\n    Image: " \o image_url
                        ELSE line]
format_product(product) ==
    LET price == Get(product, "Price", 0)
        name == Get(product, "Name", "Unknown")
        brand == Get(product, "Brand", "")
        description == Get(product, "Description", "")
        product_id == Get(product, "Id", "")
        image_url == Get(product, "PrimaryImage", "")
        availability == Get(product, "Availability", EmptyDict)
    IN  IF availability = Null
        THEN [raised |-> "AttributeError", text |-> ""]
        ELSE
          LET available == Get(availability, "IsAvailableInStock", FALSE)
              availability_str == IF available THEN "In stock"
                                  ELSE "OUT OF STOCK"
              line == "  [" \o product_id \o "] " \o name \o " (" \o brand
                      \o ") - " \o Fmt2f(price) \o " kr - " \o description
                      \o " [" \o availability_str \o "]"
          IN  [raised |-> "",
               text |-> IF image_url # ""
                        THEN line \o "\n    Image: " \o image_url
                        ELSE line]

-----------------------------------------------------------------------------
(* search_products(), cmd_search() *)

ProductPool ==
    {[Id |-> "701025", Url |-> "milk-701025", Name |-> "Milk"],
     [Id |-> "999999", Url |-> "juice-999999", Name |-> "Juice"],
     [Id |-> "701025"],
     [Id |-> "555555", Name |-> "Cream", Availability |-> Null]}

\* search_products(auth, product_id, limit=5): the number of results
\* get_product_details() asks for (line 277)
DetailsLimit == 5

\* a product that is not the one asked for
OtherProduct == [Id |-> "999999", Url |-> "juice-999999", Name |-> "Juice"]

\* the server is free to return more products than the request's take:
\* lists of exactly DetailsLimit and of DetailsLimit + 1 products, whose
\* last product is any of the pool and whose other products do not match
LongProductLists ==
    {[i \in 1..n |-> IF i = n THEN p ELSE OtherProduct] :
        n \in {DetailsLimit, DetailsLimit + 1}, p \in ProductPool}

SearchBodies ==
    {[Products |-> [Products |-> l]] :
        l \in SeqsUpTo(ProductPool, MaxProducts) \cup LongProductLists}
    \cup {EmptyDict, [Products |-> EmptyDict]}

\* the query and the limit of the search the subcommand makes
SearchQuery(a) == IF a.command = "search" THEN a.query ELSE a.product_id
SearchLimit(a) == IF a.command = "search" THEN a.limit ELSE DetailsLimit

\* the headers search_products() builds by hand (lines 178-184)
SearchHeaders(a, uuid) ==
    ("Accept" :> "application/json, text/plain, */*")
    @@ ("Authorization" :> Bearer(a.bearer_token))
    @@ ("X-Correlation-Id" :> uuid)
    @@ ("Referer" :> BASE_URL \o "/")
    @@ ("User-Agent" :> "Mozilla/5.0 (X11; Linux x86_64) AppleWebKit/537.36")

\* the params of the search request (lines 186-198)
SearchParams(query, limit, ps) ==
    LET base == [query |-> query, take |-> limit, skip |-> 0, recipeCount |-> 0,
                 timestamp |-> ps["timestamp"],
                 timeslotUtc |-> ps["timeslotUtc"],
                 deliveryZoneId |-> ps["deliveryZoneId"]]
    IN  IF Truthy(Get(ps, "userId", None))
        THEN Put(base, "includeFavorites", ps["userId"])
        ELSE base

\* data.get("Products", {}).get("Products", [])
SearchResult(data) == Get(Get(data, "Products", EmptyDict), "Products", << >>)

\* cmd_search(): the exception that the loop print(format_product(product))
\* raises (at the first product that makes format_product raise), "" if none
CmdSearchRaised(found) ==
    LET R == {i \in 1..Len(found) : format_product(found[i]).raised # ""}
    IN  IF R = {} THEN "" ELSE format_product(found[Least(R)]).raised

\* cmd_search(): the exit code for the products found (1 also when the loop
\* raises: main() returns 1 from its handler)
CmdSearchAlwaysZero(found) == 0
CmdSearchExit(found) ==
    IF Len(found) = 0 \/ CmdSearchRaised(found) # "" THEN 1 ELSE 0

\* get_product_details(): the Url of the first product whose Id is product_id
FindProductUrl(found, product_id) ==
    LET M == {i \in 1..Len(found) : KeyEquals(found[i], "Id", product_id)}
    IN  IF M = {} THEN None ELSE Get(found[Least(M)], "Url", None)

\* get_product_details(): what follows a search that gave a product URL
\* (line 293: the page settings are fetched again)
ReusePageSettings == "ProductPage"
AfterProductFound == "AppSettings"

\* ProductNotFoundError raised in get_product_details(), caught in cmd_details()
NotFound ==
    /\ pc' = "done"
    /\ raised' = "ProductNotFoundError"
    /\ caught' = "ProductNotFoundError"
    /\ exit_code' = 1

Search ==
    /\ pc = "Search"
    /\ \E resp \in Responses(SearchBodies) :
        LET exc == ResponseError(resp, {})
            found == SearchResult(resp.body)
            url == FindProductUrl(found, args.product_id)
        IN  /\ Send(Request("GET", SEARCH_API_URL \o "/search",
                            SearchHeaders(auth, nextId),
                            SearchParams(SearchQuery(args), SearchLimit(args),
                                         page_settings),
                            EmptyDict), resp)
            /\ nextId' = nextId + 1
            /\ IF exc # ""
               THEN /\ Fail(exc)
                    /\ UNCHANGED <<products, product_url, ret, returned>>
               ELSE /\ products' = found
                    /\ returned' = returned \cup {"search_products"}
                    /\ IF args.command = "search"
                       THEN /\ IF CmdSearchRaised(found) # ""
                               THEN Fail(CmdSearchRaised(found))
                               ELSE Return(CmdSearchExit(found))
                            /\ UNCHANGED <<product_url, ret>>
                       ELSE /\ product_url' = url
                            /\ IF ~Truthy(url)
                               THEN NotFound /\ UNCHANGED ret
                               ELSE /\ Continue(AfterProductFound)
                                    /\ ret' = "ProductPage"
    /\ UNCHANGED <<args, tokens_issued, loginLocals, auth, ps_headers, settings,
                   page_settings, orders, order, result, fmtVars>>

-----------------------------------------------------------------------------
(* get_product_details(), cmd_details() *)

ContentPool ==
    {[TemplateName |-> "productdetailspot", Id |-> "701025", Name |-> "Milk"],
     [TemplateName |-> "productdetailspot", Id |-> "701025", Name |-> "Milk 1L"],
     [Name |-> "untitled"]}

ProductPageBodies ==
    {[content |-> l] : l \in SeqsUpTo(ContentPool, MaxContent)}
    \cup {EmptyDict}

\* the index of the first item of content whose TemplateName is
\* "productdetailspot", 0 if there is none (lines 311-313)
FindDetailBlock(content) ==
    LET M == {i \in 1..Len(content) :
                 KeyEquals(content[i], "TemplateName", "productdetailspot")}
    IN  IF M = {} THEN 0 ELSE Least(M)

ProductPage ==
    /\ pc = "ProductPage"
    /\ \E resp \in Responses(ProductPageBodies) :
        LET exc == ResponseError(resp, {})
            content == Get(resp.body, "content", << >>)
            i == FindDetailBlock(content)
        IN  /\ Send(Request("GET", BASE_URL \o "/" \o product_url,
                            AuthHeaders(auth, nextId),
                            [GetAsJson |-> "1",
                             t |-> page_settings["timeslotUtc"], d |-> "1"],
                            EmptyDict), resp)
            /\ nextId' = nextId + 1
            /\ IF exc # "" THEN Fail(exc) /\ UNCHANGED <<result, returned>>
               ELSE IF i = 0 THEN NotFound /\ UNCHANGED <<result, returned>>
               ELSE /\ Return(0)
                    /\ result' = content[i]
                    /\ returned' = returned \cup {"get_product_details"}
    /\ UNCHANGED <<args, tokens_issued, loginLocals, auth, pageLocals, products,
                   product_url, orders, order, fmtVars>>

-----------------------------------------------------------------------------
(* get_basket(), cmd_basket(), add_to_basket(), cmd_add() *)

BasketLine == [Id |-> "701025", Name |-> "Milk", Brand |-> "Arla",
               Quantity |-> 1, ItemPrice |-> 1250, Price |-> 1250]

BasketBodies == {EmptyDict, [Lines |-> << >>], [Lines |-> <<BasketLine>>]}

\* cmd_basket(): the exit code for the basket fetched
CmdBasketExit(basket) ==
    IF Len(Get(basket, "Lines", << >>)) = 0 THEN 0 ELSE 0

GetBasket ==
    /\ pc = "GetBasket"
    /\ \E resp \in Responses(BasketBodies) :
        LET exc == ResponseError(resp, {})
        IN  /\ Send(Request("GET", BASE_URL \o "/webapi/basket/GetBasket",
                            AuthHeaders(auth, nextId), EmptyDict, EmptyDict),
                    resp)
            /\ nextId' = nextId + 1
            /\ IF exc # "" THEN Fail(exc) /\ UNCHANGED <<result, returned>>
               ELSE /\ Return(CmdBasketExit(resp.body))
                    /\ result' = resp.body
                    /\ returned' = returned \cup {"get_basket"}
    /\ UNCHANGED <<args, tokens_issued, loginLocals, auth, pageLocals, products,
                   product_url, orders, order, fmtVars>>

AddToBasket ==
    /\ pc = "AddToBasket"
    /\ \E resp \in Responses(BasketBodies) :
        LET exc == ResponseError(resp, {})
        IN  /\ Send(Request("POST", BASE_URL \o "/webapi/basket/AddToBasket",
                            Put(AuthHeaders(auth, nextId), "Referer",
                                BASE_URL \o "/"),
                            EmptyDict,
                            [ProductId |-> args.product_id,
                             quantity |-> args.quantity,
                             AffectPartialQuantity |-> FALSE,
                             disableQuantityValidation |-> FALSE]), resp)
            /\ nextId' = nextId + 1
            /\ IF exc # "" THEN Fail(exc) /\ UNCHANGED <<result, returned>>
               ELSE /\ Return(0)
                    /\ result' = resp.body
                    /\ returned' = returned \cup {"add_to_basket"}
    /\ UNCHANGED <<args, tokens_issued, loginLocals, auth, pageLocals, products,
                   product_url, orders, order, fmtVars>>

-----------------------------------------------------------------------------
(* get_order_history(), get_order_details(), cmd_history() *)

\* a history of n orders; the order at position p (if any) has identifier id
OrderList(n, p, id) ==
    [i \in 1..n |->
        [Id |-> IF i = p THEN id ELSE 20000000 + i,
         OrderNumber |-> "N" \o ToString(i),
         Total |-> 10750, SubTotal |-> 10000, Status |-> 4]]

OrderLists(id) ==
    {OrderList(n, p, id) :
        n \in {0, 1, MAX_ORDER_HISTORY_LOOKUP, MaxOrders},
        p \in {0, 1, MAX_ORDER_HISTORY_LOOKUP, MaxOrders}}

HistoryBodies(id) ==
    {[Orders |-> l, NumberOfPages |-> 1] : l \in OrderLists(id)}
    \cup {EmptyDict}

OrderLine == [ProductName |-> "Milk", ProductNumber |-> "701025",
              Quantity |-> 2, Amount |-> 2500, AverageItemPrice |-> 1250]

OrderDetailsBodies == {EmptyDict, [Lines |-> << >>], [Lines |-> <<OrderLine>>]}

\* cmd_history(): the position of the first order whose Id is order_id,
\* 0 if there is none (lines 635-639)
FindOrder(history_orders, order_id) ==
    LET M == {i \in 1..Len(history_orders) :
                 KeyEquals(history_orders[i], "Id", order_id)}
    IN  IF M = {} THEN 0 ELSE Least(M)

\* `if order_id:` -- None (no argument) and 0 are both falsy
LookupById(a) == a.order_id # 0

OrderHistory ==
    /\ pc = "OrderHistory"
    /\ \E resp \in Responses(HistoryBodies(args.order_id)) :
        LET exc == ResponseError(resp, {})
            take == IF LookupById(args) THEN MAX_ORDER_HISTORY_LOOKUP
                    ELSE args.limit
            found == Get(resp.body, "Orders", << >>)
            i == FindOrder(found, args.order_id)
        IN  /\ Send(Request("GET",
                            BASE_URL \o "/webapi/order/GetBasicOrderHistory",
                            AuthHeaders(auth, nextId),
                            [skip |-> 0, take |-> take], EmptyDict), resp)
            /\ nextId' = nextId + 1
            /\ IF exc # ""
               THEN Fail(exc) /\ UNCHANGED <<orders, order, returned>>
               ELSE /\ orders' = found
                    /\ returned' = returned \cup {"get_order_history"}
                    /\ IF ~LookupById(args) THEN Return(0) /\ UNCHANGED order
                       ELSE IF i = 0 THEN Return(1) /\ UNCHANGED order
                       ELSE Continue("OrderDetails") /\ order' = found[i]
    /\ UNCHANGED <<args, tokens_issued, loginLocals, auth, pageLocals, products,
                   product_url, result, fmtVars>>

OrderDetails ==
    /\ pc = "OrderDetails"
    /\ \E resp \in Responses(OrderDetailsBodies) :
        LET exc == ResponseError(resp, {})
        IN  /\ Send(Request("GET",
                            BASE_URL \o "/webapi/v2/order/GetOrderHistory/"
                                \o ToString(args.order_id),
                            AuthHeaders(auth, nextId), EmptyDict, EmptyDict),
                    resp)
            /\ nextId' = nextId + 1
            /\ IF exc # "" THEN Fail(exc) /\ UNCHANGED <<result, returned>>
               ELSE /\ Return(0)
                    /\ result' = resp.body
                    /\ returned' = returned \cup {"get_order_details"}
    /\ UNCHANGED <<args, tokens_issued, loginLocals, auth, pageLocals, products,
                   product_url, orders, order, fmtVars>>

-----------------------------------------------------------------------------
(* Presenter: the product records formatted *)

\* the dict d without the keys outside keep
Restrict(d, keep) == [k \in DOMAIN d \cap keep |-> d[k]]

ProductFields == {"Name", "Brand", "Price", "Description", "Id",
                  "PrimaryImage", "Availability"}

\* product records: every subset of the optional fields present
ProductRecords ==
    {Restrict([Name |-> "Milk", Brand |-> "Arla", Price |-> price,
               Description |-> "1 l", Id |-> "701025",
               PrimaryImage |-> "https://img.example/701025.jpg",
               Availability |-> availability], present) :
        price \in {1250, 5},
        availability \in {[IsAvailableInStock |-> TRUE],
                          [IsAvailableInStock |-> FALSE], EmptyDict, Null},
        present \in SUBSET ProductFields}

\* print(format_product(product))
FormatProduct ==
    /\ pc = "format_product"
    /\ pc' = "done"
    /\ fmt_out' = format_product(fmt_in)
    /\ UNCHANGED <<args, reqs, lastResp, tokens_issued, nextId, loginLocals,
                   auth, pageLocals, cmdLocals, returned, raised, caught,
                   exit_code, fmt_in>>

-----------------------------------------------------------------------------
(* The command lines tried *)

Credentials == [username |-> "user@example.com", password |-> "secret"]

CommandLines ==
    {Credentials @@ [command |-> "search", query |-> "milk", limit |-> 10],
     Credentials @@ [command |-> "details", product_id |-> "701025"],
     Credentials @@ [command |-> "basket"],
     Credentials @@ [command |-> "add", product_id |-> "701025",
                     quantity |-> 1],
     Credentials @@ [command |-> "history", order_id |-> 0, limit |-> 10],
     Credentials @@ [command |-> "history", order_id |-> 12345678,
                     limit |-> 10]}

\* nothing has run yet
Fresh ==
    /\ reqs = << >>
    /\ lastResp = NoResponse
    /\ tokens_issued = << >>
    /\ nextId = 1
    /\ headers = EmptyDict
    /\ xsrf_token = ""
    /\ bearer_token = ""
    /\ auth = NoAuth
    /\ ps_headers = EmptyDict
    /\ settings = EmptyDict
    /\ page_settings = EmptyDict
    /\ ret = "Search"
    /\ products = << >>
    /\ product_url = None
    /\ orders = << >>
    /\ order = EmptyDict
    /\ result = EmptyDict
    /\ returned = {}
    /\ raised = ""
    /\ caught = ""
    /\ exit_code = -1
    /\ fmt_out = NoOutput

Init ==
    /\ args \in CommandLines
    /\ pc = "AntiForgery1"
    /\ fmt_in = EmptyDict
    /\ Fresh

Next ==
    \/ AntiForgery1
    \/ Token1
    \/ Login
    \/ Token2
    \/ AntiForgery2
    \/ AppSettings
    \/ Page
    \/ Search
    \/ ProductPage
    \/ GetBasket
    \/ AddToBasket
    \/ OrderHistory
    \/ OrderDetails

Spec == Init /\ [][Next]_vars

\* the presenter alone: a product record is formatted
InitFmt ==
    /\ args = Credentials
    /\ pc = "format_product"
    /\ fmt_in \in ProductRecords
    /\ Fresh

NextFmt == FormatProduct

SpecFmt == InitFmt /\ [][NextFmt]_vars

-----------------------------------------------------------------------------
(* Presenter: format_order_line(), format_order_details() *)

\* largest amount (in minor units) of the small amounts tried
MaxAmount == 3

\* Total and SubTotal of the orders formatted
Amounts == (0..MaxAmount) \cup {95, 10000, 10750}

\* sep.join(lines)
RECURSIVE Join(_, _)
Join(lines, sep) ==
    IF Len(lines) = 0 THEN ""
    ELSE IF Len(lines) = 1 THEN lines[1]
    ELSE lines[1] \o sep \o Join(Tail(lines), sep)

\* ch * n
RECURSIVE Repeat(_, _)
Repeat(ch, n) == IF n <= 0 THEN "" ELSE ch \o Repeat(ch, n - 1)

\* sum(line.get("Amount", 0) for line in lines)
RECURSIVE SumAmounts(_)
SumAmounts(lines) ==
    IF Len(lines) = 0 THEN 0
    ELSE Get(lines[1], "Amount", 0) + SumAmounts(Tail(lines))

\* format_order_line(): quantities are whole numbers, so f"{quantity:.0f}"
\* prints the number itself
format_order_line(line) ==
    LET name == Get(line, "ProductName", "Unknown")
        quantity == Get(line, "Quantity", 0)
        amount == Get(line, "Amount", 0)
        avg_price == Get(line, "AverageItemPrice", 0)
        product_num == Get(line, "ProductNumber", "")
        description == Get(line, "Description", "")
        has_campaign == Get(line, "HasCampaign", FALSE)
        campaign_str == IF has_campaign THEN " [OFFER]" ELSE ""
    IN  "  [" \o product_num \o "] " \o name \o " - " \o description \o " x"
        \o ToString(quantity) \o " @ " \o Fmt2f(avg_price) \o " kr = "
        \o Fmt2f(amount) \o " kr" \o campaign_str

\* delivery_fee = total - subtotal (line 433)
DeliveryFeeSwapped(total, subtotal) == subtotal - total
DeliveryFee(total, subtotal) == total - subtotal

\* format_order_details(): the list `output` it builds
OrderDetailsOutput(o, lines) ==
    LET order_num == Get(o, "OrderNumber", "Unknown")
        order_id == IF "Id" \in DOMAIN o THEN ToString(o["Id"]) ELSE ""
        total == Get(o, "Total", 0)
        subtotal == Get(o, "SubTotal", 0)
        delivery_fee == DeliveryFee(total, subtotal)
        line_total == SumAmounts(lines)
    IN  <<"Order " \o order_num,
          Repeat("=", Len("Order " \o order_num)),
          "",
          "Order ID:     " \o order_id,
          "Subtotal:     " \o Fmt2f(subtotal) \o " kr",
          "Delivery:     " \o Fmt2f(delivery_fee) \o " kr",
          "Total:        " \o Fmt2f(total) \o " kr",
          "",
          "Items (" \o ToString(Len(lines)) \o "):">>
        \o [i \in 1..Len(lines) |-> format_order_line(lines[i])]
        \o <<"", "  Lines total: " \o Fmt2f(line_total) \o " kr">>

\* format_order_details(): "\n".join(output)
format_order_details(o, lines) == Join(OrderDetailsOutput(o, lines), "\n")

OrderFields == {"Id", "OrderNumber", "Total", "SubTotal"}

\* order summaries: every subset of the fields present, every pair of amounts
OrderRecords ==
    {Restrict([Id |-> 12345678, OrderNumber |-> "N1", Total |-> total,
               SubTotal |-> subtotal], present) :
        total \in Amounts, subtotal \in Amounts,
        present \in SUBSET OrderFields}

OrderLinesTried ==
    {<< >>,
     <<OrderLine>>,
     <<OrderLine, [ProductName |-> "Juice", Amount |-> 995, HasCampaign |-> TRUE]>>}

\* print(format_order_details(order, lines))
FormatOrderDetails ==
    /\ pc = "format_order_details"
    /\ pc' = "done"
    /\ fmt_out' = [raised |-> "",
                   text |-> format_order_details(fmt_in.order, fmt_in.lines),
                   output |-> OrderDetailsOutput(fmt_in.order, fmt_in.lines)]
    /\ UNCHANGED <<args, reqs, lastResp, tokens_issued, nextId, loginLocals,
                   auth, pageLocals, cmdLocals, returned, raised, caught,
                   exit_code, fmt_in>>

\* the presenter alone: an order is formatted
InitOrder ==
    /\ args = Credentials
    /\ pc = "format_order_details"
    /\ fmt_in \in {[order |-> o, lines |-> l] :
                      o \in OrderRecords, l \in OrderLinesTried}
    /\ Fresh

NextOrder == FormatOrderDetails

SpecOrder == InitOrder /\ [][NextOrder]_vars

-----------------------------------------------------------------------------
(* Presenter: strip_html_tags(); a string is the sequence of the code points
   of its characters *)

\* longest input built from the alphabet
MaxLen == 4

\* ord(ch) of the characters the inputs are written with
CodePoint ==
    ("\t" :> 9) @@ ("\n" :> 10) @@ ("\f" :> 12) @@ ("\r" :> 13)
    @@ (" " :> 32) @@ ("&" :> 38) @@ ("/" :> 47) @@ (";" :> 59)
    @@ ("<" :> 60) @@ (">" :> 62) @@ ("H" :> 72) @@ ("a" :> 97)
    @@ ("b" :> 98) @@ ("d" :> 100) @@ ("e" :> 101) @@ ("f" :> 102)
    @@ ("g" :> 103) @@ ("h" :> 104) @@ ("l" :> 108) @@ ("m" :> 109)
    @@ ("o" :> 111) @@ ("p" :> 112) @@ ("r" :> 114) @@ ("t" :> 116)
    @@ ("w" :> 119) @@ ("x" :> 120) @@ ("y" :> 121)

\* the string whose characters are chars
Str(chars) == [i \in DOMAIN chars |-> CodePoint[chars[i]]]

Alphabet == {CodePoint[c] : c \in {"<", ">", "b", " ", "&"}}

\* the characters str.strip() removes, those for which str.isspace() holds:
\* U+0009..U+000D, U+001C..U+0020, U+0085, U+00A0, U+1680, U+2000..U+200A,
\* U+2028, U+2029, U+202F, U+205F, U+3000
Whitespace ==
    (9..13) \cup (28..32) \cup {133, 160, 5760} \cup (8192..8202)
        \cup {8232, 8233, 8239, 8287, 12288}

\* "<b>Hello</b> world"
HelloWorld ==
    Str(<<"<", "b", ">", "H", "e", "l", "l", "o", "<", "/", "b", ">", " ",
          "w", "o", "r", "l", "d">>)

\* "&lt;b&gt; &amp;"
Entities ==
    Str(<<"&", "l", "t", ";", "b", "&", "g", "t", ";", " ", "&", "a", "m",
          "p", ";">>)

\* "\t<a\nhref> x<>y \n"
Multiline ==
    Str(<<"\t", "<", "a", "\n", "h", "r", "e", "f", ">", " ", "x", "<", ">",
          "y", " ", "\n">>)

\* U+000C, U+3000, "<b>x", U+00A0, "y</b>", U+001F, U+2003, U+0085
WideSpaces ==
    <<12, 12288>> \o Str(<<"<", "b", ">", "x">>) \o <<160>>
        \o Str(<<"y", "<", "/", "b", ">">>) \o <<31, 8195, 133>>

HtmlInputs ==
    UNION {[1..n -> Alphabet] : n \in 0..MaxLen}
        \cup {HelloWorld, Entities, Multiline, WideSpaces}

\* the regular expression <[^>]+> tried at position i: the position of the
\* '>' that ends the match, 0 if there is no match at i
TagEndStar(html, i) ==
    IF html[i] # CodePoint["<"] THEN 0
    ELSE LET closers == {j \in (i + 1)..Len(html) : html[j] = CodePoint[">"]}
         IN  IF closers = {} THEN 0
             ELSE CHOOSE j \in closers : \A k \in closers : j <= k
TagEnd(html, i) ==
    IF html[i] # CodePoint["<"] THEN 0
    ELSE LET closers == {j \in (i + 1)..Len(html) : html[j] = CodePoint[">"]}
         IN  IF closers = {} THEN 0
             ELSE LET j == CHOOSE j \in closers : \A k \in closers : j <= k
                  IN  IF j >= i + 2 THEN j ELSE 0

\* re.sub(r"<[^>]+>", "", html) from position i on: leftmost matches, one
\* after the other, are replaced by nothing
RECURSIVE re_sub(_, _)
re_sub(html, i) ==
    IF i > Len(html) THEN << >>
    ELSE IF TagEnd(html, i) # 0 THEN re_sub(html, TagEnd(html, i) + 1)
    ELSE <<html[i]>> \o re_sub(html, i + 1)

RECURSIVE lstrip(_)
lstrip(text) ==
    IF Len(text) > 0 /\ text[1] \in Whitespace THEN lstrip(Tail(text))
    ELSE text

RECURSIVE rstrip(_)
rstrip(text) ==
    IF Len(text) > 0 /\ text[Len(text)] \in Whitespace
    THEN rstrip(SubSeq(text, 1, Len(text) - 1))
    ELSE text

\* str.strip()
strip(text) == rstrip(lstrip(text))

\* strip_html_tags()
strip_html_tags(html) == strip(re_sub(html, 1))

\* clean_text = strip_html_tags(text)
StripHtmlTags ==
    /\ pc = "strip_html_tags"
    /\ pc' = "done"
    /\ fmt_out' = [raised |-> "", text |-> strip_html_tags(fmt_in)]
    /\ UNCHANGED <<args, reqs, lastResp, tokens_issued, nextId, loginLocals,
                   auth, pageLocals, cmdLocals, returned, raised, caught,
                   exit_code, fmt_in>>

\* the presenter alone: a text is stripped of its tags
InitStrip ==
    /\ args = Credentials
    /\ pc = "strip_html_tags"
    /\ fmt_in \in HtmlInputs
    /\ Fresh

NextStrip == StripHtmlTags

SpecStrip == InitStrip /\ [][NextStrip]_vars

-----------------------------------------------------------------------------
(* Vocabulary of the properties *)

AntiForgeryUrl == BASE_URL \o "/webapi/AntiForgery"
TokenUrl == BASE_URL \o "/webapi/Token"
LoginUrl == BASE_URL \o "/webapi/login"
AppSettingsUrl == BASE_URL \o "/webapi/v2/AppSettings/Website"
PageUrl == BASE_URL \o "/"
SearchUrl == SEARCH_API_URL \o "/search"
BasketUrls == {BASE_URL \o "/webapi/basket/GetBasket",
               BASE_URL \o "/webapi/basket/AddToBasket"}
OrderUrls == {BASE_URL \o "/webapi/order/GetBasicOrderHistory",
              BASE_URL \o "/webapi/v2/order/GetOrderHistory/"
                  \o ToString(args.order_id)}

Done == pc = "done"
NumReqs == Len(reqs)
LastReq == reqs[Len(reqs)]
Is2xx(status) == 200 <= status /\ status < 300
HasHeader(req, h) == h \in DOMAIN req.headers

\* the request fetches a product page (get_product_details, line 305)
IsProductPage(req) ==
    /\ req.url \notin {AntiForgeryUrl, TokenUrl, LoginUrl, AppSettingsUrl,
                       PageUrl, SearchUrl}
    /\ req.url \notin BasketUrls
    /\ "t" \in DOMAIN req.params

\* the response to the last request came with a JSON body and a status that
\* does not raise
LastBodyRead == lastResp.json /\ lastResp.status \in BodyStatusCodes

\* the API operation that sent the last request
Pending ==
    CASE LastReq.url \in {AntiForgeryUrl, TokenUrl, LoginUrl} -> "login"
      [] LastReq.url = SearchUrl -> "search_products"
      [] LastReq.url \in {AppSettingsUrl, PageUrl} ->
             IF ret = "Search" THEN "search_products"
             ELSE "get_product_details"
      [] LastReq.url = BASE_URL \o "/webapi/basket/GetBasket" -> "get_basket"
      [] LastReq.url = BASE_URL \o "/webapi/basket/AddToBasket" ->
             "add_to_basket"
      [] LastReq.url = BASE_URL \o "/webapi/order/GetBasicOrderHistory" ->
             "get_order_history"
      [] IsProductPage(LastReq) -> "get_product_details"
      [] OTHER -> "get_order_details"

-----------------------------------------------------------------------------
(* C1 *)

\* C1: a successful login has sent exactly five requests, in the order
\* anti-forgery GET, token GET, login POST (with the two tokens just
\* received), token GET, anti-forgery GET, and the credentials it returns
\* hold the tokens of the fourth and fifth responses.
C1_LoginHandshake ==
    "login" \in returned =>
        /\ NumReqs >= 5
        /\ <<reqs[1].url, reqs[2].url, reqs[3].url, reqs[4].url, reqs[5].url>>
               = <<AntiForgeryUrl, TokenUrl, LoginUrl, TokenUrl, AntiForgeryUrl>>
        /\ <<reqs[1].method, reqs[2].method, reqs[3].method, reqs[4].method,
             reqs[5].method>> = <<"GET", "GET", "POST", "GET", "GET">>
        /\ \A i \in 6..NumReqs :
               reqs[i].url \notin {AntiForgeryUrl, TokenUrl, LoginUrl}
        /\ Len(tokens_issued) = 4
        /\ reqs[3].headers["X-XSRF-TOKEN"] = tokens_issued[1]
        /\ reqs[3].headers["Authorization"] = Bearer(tokens_issued[2])
        /\ reqs[3].json = login_payload(args.username, args.password)
        /\ auth.bearer_token = tokens_issued[3]
        /\ auth.xsrf_token = tokens_issued[4]

\* login has returned credentials and the service rotated both tokens
C1_Witness ==
    /\ "login" \in returned
    /\ tokens_issued[3] # tokens_issued[2]
    /\ tokens_issued[4] # tokens_issued[1]

-----------------------------------------------------------------------------
(* C2 *)

\* the login POST was the last request and its response was 2xx JSON
\* without RedirectUrl
LoginRejected ==
    /\ NumReqs = 3
    /\ lastResp # NoResponse
    /\ Is2xx(lastResp.status)
    /\ lastResp.json
    /\ "RedirectUrl" \notin DOMAIN lastResp.body

\* C2: when the login POST is answered 2xx without RedirectUrl, login raises
\* AuthError, returns no credentials, sends no further request, and no
\* command runs.
C2_AuthErrorOnMissingRedirect ==
    LoginRejected =>
        /\ Done
        /\ raised = "AuthError"
        /\ auth = NoAuth
        /\ returned = {}

-----------------------------------------------------------------------------
(* C3 *)

\* what C3 promises of a run whose last response has the given status
HttpErrorEndsRun ==
    /\ Done
    /\ ~ENABLED Next
    /\ raised = "HTTPError"
    /\ caught = "HTTPError"
    /\ exit_code = 1
    /\ Pending \notin returned
    /\ result = EmptyDict
    /\ Pending = "login" => auth = NoAuth

\* C3 as stated: a non-2xx response to any request makes the operation raise
\* HttpError there, send nothing more and return nothing; the exit code is 1.
C3_RaiseOnNon2xx ==
    (NumReqs > 0 /\ ~Is2xx(lastResp.status)) => HttpErrorEndsRun

\* C3 amended: the same of a 4xx or 5xx response.
C3_RaiseOn4xx5xx ==
    (NumReqs > 0 /\ 400 <= lastResp.status /\ lastResp.status < 600)
        => HttpErrorEndsRun

\* the product page request of `details`, the eleventh request, got a 500
C3_Witness ==
    /\ NumReqs = 11
    /\ IsProductPage(LastReq)
    /\ lastResp.status = 500
    /\ Done

-----------------------------------------------------------------------------
(* C4 *)

\* one of the first DetailsLimit products the search returned has exactly
\* the identifier asked for
TopMatch ==
    \E i \in 1..Len(products) :
        /\ i <= DetailsLimit
        /\ "Id" \in DOMAIN products[i]
        /\ products[i]["Id"] = args.product_id

IsDetailBlock(item) ==
    "TemplateName" \in DOMAIN item /\ item["TemplateName"] = "productdetailspot"

\* the content list of the product page just fetched
PageContent == Get(lastResp.body, "content", << >>)

\* a product page was fetched and its body read
PageFetched == NumReqs > 0 /\ IsProductPage(LastReq) /\ LastBodyRead

HasDetailBlock == \E i \in 1..Len(PageContent) : IsDetailBlock(PageContent[i])

\* get_product_details returned the first detail block of the fetched page
ReturnedFirstBlock ==
    /\ PageFetched
    /\ raised = ""
    /\ "get_product_details" \in returned
    /\ \E i \in 1..Len(PageContent) :
          /\ IsDetailBlock(PageContent[i])
          /\ \A j \in 1..(i - 1) : ~IsDetailBlock(PageContent[j])
          /\ result = PageContent[i]

\* C4: get_product_details raises ProductNotFoundError, without requesting a
\* product page, when none of the top 5 search results has exactly the
\* identifier asked for (also when there are no results); it raises
\* ProductNotFoundError when the fetched page has no detail block; otherwise
\* it returns the first detail block of the fetched page.
C4_ProductNotFound ==
    args.command = "details" =>
        /\ ("search_products" \in returned /\ ~TopMatch) =>
               /\ Done
               /\ raised = "ProductNotFoundError"
               /\ "get_product_details" \notin returned
               /\ \A i \in 1..NumReqs : ~IsProductPage(reqs[i])
        /\ (PageFetched /\ ~HasDetailBlock) =>
               /\ raised = "ProductNotFoundError"
               /\ "get_product_details" \notin returned
        /\ (/\ Done
            /\ raised \in {"", "ProductNotFoundError"}
            /\ "search_products" \in returned
            /\ TopMatch
            /\ ~(PageFetched /\ ~HasDetailBlock)) => ReturnedFirstBlock

-----------------------------------------------------------------------------
(* C5 *)

\* the positions of the history response that hold the order asked for
OrderPositions ==
    {i \in 1..Len(orders) :
        "Id" \in DOMAIN orders[i] /\ orders[i]["Id"] = args.order_id}

\* C5: an order that the history response holds only at position 101 or
\* later is reported as not found (exit code 1) and no order-details request
\* is sent for it.
C5_ScanAtMost100 ==
    (/\ args.command = "history"
     /\ LookupById(args)
     /\ "get_order_history" \in returned
     /\ OrderPositions # {}
     /\ \A i \in OrderPositions : i > MAX_ORDER_HISTORY_LOOKUP)
        => /\ Done
           /\ exit_code = 1
           /\ NumReqs = 6

-----------------------------------------------------------------------------
(* C6 *)

SearchEmpty ==
    args.command = "search" /\ "search_products" \in returned
        /\ Len(products) = 0
BasketEmpty ==
    args.command = "basket" /\ "get_basket" \in returned
        /\ Len(Get(result, "Lines", << >>)) = 0
HistoryEmpty ==
    args.command = "history" /\ ~LookupById(args)
        /\ "get_order_history" \in returned /\ Len(orders) = 0
OrderNotFound ==
    args.command = "history" /\ LookupById(args)
        /\ "get_order_history" \in returned /\ OrderPositions = {}

\* C6 as stated: the exit code is 1 when the command ends in an exception,
\* a not-found or an empty result (of search, basket or history listing),
\* and 0 otherwise.
C6_ExitCodes ==
    Done =>
        exit_code = IF \/ raised # ""
                       \/ OrderNotFound
                       \/ SearchEmpty \/ BasketEmpty \/ HistoryEmpty
                    THEN 1 ELSE 0

\* C6 amended: the exit code is 1 when the command ends in an exception, a
\* not-found or an empty search result, and 0 otherwise; an empty basket and
\* an empty history listing end with 0.
C6_ExitCodesAmended ==
    Done =>
        /\ exit_code = IF raised # "" \/ OrderNotFound \/ SearchEmpty
                       THEN 1 ELSE 0
        /\ (BasketEmpty \/ HistoryEmpty) => exit_code = 0

\* the basket command ended on an empty basket
C6_Witness == Done /\ BasketEmpty /\ raised = ""

-----------------------------------------------------------------------------
(* C7 *)

\* C7: no two requests of a run carry the same correlation identifier.
C7_FreshCorrelationIds ==
    \A i, j \in 1..NumReqs :
        i # j => reqs[i].headers["X-Correlation-Id"]
                     # reqs[j].headers["X-Correlation-Id"]

-----------------------------------------------------------------------------
(* C8 *)

CarriesBearer(req) ==
    HasHeader(req, "Authorization")
        /\ req.headers["Authorization"] = Bearer(auth.bearer_token)
CarriesXsrf(req) ==
    HasHeader(req, "X-XSRF-TOKEN")
        /\ req.headers["X-XSRF-TOKEN"] = auth.xsrf_token
CarriesPlatform(req) ==
    /\ HasHeader(req, "Platform") /\ req.headers["Platform"] = "web"
    /\ HasHeader(req, "Version") /\ req.headers["Version"] = "11.201.0"
CarriesAllFour(req) ==
    /\ CarriesBearer(req)
    /\ CarriesXsrf(req)
    /\ HasHeader(req, "X-Correlation-Id")
    /\ CarriesPlatform(req)

\* C8 as stated: every request after login carries the bearer token and the
\* anti-forgery token of the credentials, a correlation identifier and the
\* platform/version identification.
C8_AllFourHeaders ==
    \A i \in 6..NumReqs : CarriesAllFour(reqs[i])

\* C8 amended: every request after login but the search request carries all
\* four; the search request carries the bearer token and a correlation
\* identifier, and neither the anti-forgery token nor platform/version.
C8_AllFourButSearch ==
    \A i \in 6..NumReqs :
        IF reqs[i].url = SearchUrl
        THEN /\ CarriesBearer(reqs[i])
             /\ HasHeader(reqs[i], "X-Correlation-Id")
             /\ ~HasHeader(reqs[i], "X-XSRF-TOKEN")
             /\ ~HasHeader(reqs[i], "Platform")
             /\ ~HasHeader(reqs[i], "Version")
        ELSE CarriesAllFour(reqs[i])

\* `details` has sent its search request and its product page request
C8_Witness ==
    /\ NumReqs = 11
    /\ reqs[8].url = SearchUrl
    /\ IsProductPage(reqs[11])

-----------------------------------------------------------------------------
(* C9 *)

IsAppSettings(req) == req.url = AppSettingsUrl
IsPage(req) == req.url = PageUrl /\ "GetAsJson" \in DOMAIN req.params
Count(P(_)) == Cardinality({i \in 1..NumReqs : P(reqs[i])})
IsSearch(req) == req.url = SearchUrl

\* C9: every search request, and every product page request, comes right
\* after an app-settings request and a page request of its own; a product
\* page request's pair comes after the search request, so each use of the
\* page settings has fetched them anew.
C9_PageSettingsNotCached ==
    /\ \A i \in 1..NumReqs :
           (IsSearch(reqs[i]) \/ IsProductPage(reqs[i])) =>
               /\ i > 2
               /\ IsAppSettings(reqs[i - 2])
               /\ IsPage(reqs[i - 1])
    /\ \A j \in 1..NumReqs :
           IsProductPage(reqs[j]) =>
               \E i \in 1..(j - 3) : IsSearch(reqs[i])
    /\ Count(IsAppSettings) >= Count(IsSearch) + Count(IsProductPage)
    /\ Count(IsPage) >= Count(IsSearch) + Count(IsProductPage)

\* `details` has fetched the page settings twice and asked for the page
C9_Witness ==
    /\ NumReqs = 11
    /\ IsProductPage(reqs[11])
    /\ Count(IsAppSettings) = 2

-----------------------------------------------------------------------------
(* C10 *)

Formatted == pc = "done" /\ fmt_out # NoOutput

\* every field the record holds has the type the presenter expects
WellTyped(product) == Get(product, "Availability", EmptyDict) # Null

\* the line for the record with field k set to v
LineWith(product, k, v) == format_product(Put(product, k, v)).text

\* what C10 promises of the fields other than Brand
DefaultsButBrand ==
    /\ fmt_out.raised = ""
    /\ "Name" \notin DOMAIN fmt_in =>
           fmt_out.text = LineWith(fmt_in, "Name", "Unknown")
    /\ "Price" \notin DOMAIN fmt_in =>
           fmt_out.text = LineWith(fmt_in, "Price", 0)
    /\ "Availability" \notin DOMAIN fmt_in =>
           fmt_out.text = LineWith(fmt_in, "Availability",
                                   [IsAvailableInStock |-> FALSE])

-----------------------------------------------------------------------------
(* C11 *)

OrderFormatted == pc = "done" /\ "output" \in DOMAIN fmt_out

\* C11: format_order_details displays the subtotal, the delivery fee and the
\* total so that the delivery fee is Total - SubTotal (an absent amount
\* counting as 0), hence subtotal + delivery = total; Total 107.50 and
\* SubTotal 100.00 display delivery 7.50.
C11_DeliveryFee ==
    OrderFormatted =>
        LET total == IF "Total" \in DOMAIN fmt_in.order
                     THEN fmt_in.order["Total"] ELSE 0
            subtotal == IF "SubTotal" \in DOMAIN fmt_in.order
                        THEN fmt_in.order["SubTotal"] ELSE 0
            out == fmt_out.output
        IN  /\ out[5] = "Subtotal:     " \o Fmt2f(subtotal) \o " kr"
            /\ out[7] = "Total:        " \o Fmt2f(total) \o " kr"
            /\ \E d \in -10750..10750 :
                   /\ subtotal + d = total
                   /\ out[6] = "Delivery:     " \o Fmt2f(d) \o " kr"
            /\ (total = 10750 /\ subtotal = 10000) =>
                   /\ out[5] = "Subtotal:     100.00 kr"
                   /\ out[6] = "Delivery:     7.50 kr"
                   /\ out[7] = "Total:        107.50 kr"
            /\ (total = 0 /\ subtotal = 95) =>
                   out[6] = "Delivery:     -0.95 kr"
            /\ fmt_out.text = Join(out, "\n")

\* the order of the example, Total 107.50 and SubTotal 100.00, was formatted
C11_Witness ==
    /\ OrderFormatted
    /\ "Total" \in DOMAIN fmt_in.order /\ fmt_in.order["Total"] = 10750
    /\ "SubTotal" \in DOMAIN fmt_in.order /\ fmt_in.order["SubTotal"] = 10000

-----------------------------------------------------------------------------
(* C12 *)

Stripped == pc = "done" /\ fmt_in \in HtmlInputs

\* positions i..j hold a tag: '<', one or more characters other than '>', '>'
IsTag(text, i, j) ==
    /\ j >= i + 2
    /\ text[i] = CodePoint["<"]
    /\ text[j] = CodePoint[">"]
    /\ \A k \in (i + 1)..(j - 1) : text[k] # CodePoint[">"]

HasTag(text) ==
    \E i \in 1..Len(text) : \E j \in 1..Len(text) : IsTag(text, i, j)

\* position p lies inside some tag
InTag(text, p) ==
    \E i \in 1..p : \E j \in p..Len(text) : IsTag(text, i, j)

\* the characters outside every tag, in their order
RECURSIVE Outside(_, _)
Outside(text, p) ==
    IF p > Len(text) THEN << >>
    ELSE (IF InTag(text, p) THEN << >> ELSE <<text[p]>>)
         \o Outside(text, p + 1)

\* text without the whitespace before its first and after its last
\* character that is not whitespace
Trimmed(text) ==
    LET solid == {p \in 1..Len(text) : text[p] \notin Whitespace}
    IN  IF solid = {} THEN << >>
        ELSE SubSeq(text,
                    CHOOSE p \in solid : \A q \in solid : p <= q,
                    CHOOSE p \in solid : \A q \in solid : p >= q)

\* C12: strip_html_tags returns its input with every tag removed, every other
\* character kept in order (nothing decoded) and the whitespace at both ends
\* trimmed; the result holds no tag, and stripping it again changes nothing;
\* "<b>Hello</b> world" gives "Hello world".
C12_StripHtmlTags ==
    Stripped =>
        /\ fmt_out.text = Trimmed(Outside(fmt_in, 1))
        /\ ~HasTag(fmt_out.text)
        /\ strip_html_tags(fmt_out.text) = fmt_out.text
        /\ fmt_in = HelloWorld =>
               fmt_out.text =
                   Str(<<"H", "e", "l", "l", "o", " ", "w", "o", "r", "l", "d">>)
        /\ fmt_in = Entities => fmt_out.text = Entities
        /\ fmt_in = WideSpaces =>
               fmt_out.text = Str(<<"x">>) \o <<160>> \o Str(<<"y">>)

\* a text with a tag, with text outside it and with whitespace at an end was
\* stripped
C12_Witness ==
    /\ Stripped
    /\ HasTag(fmt_in)
    /\ fmt_out.text # << >>
    /\ Len(fmt_out.text) < Len(Outside(fmt_in, 1))

-----------------------------------------------------------------------------
(* C13 *)

\* when search_products() is about to send (pc = "Search"), lastResp is the
\* response of the page request and settings the body of the app-settings
\* response of the same get_page_settings() call

\* the page response holds the timeslot identifier v
TimeslotReturned(v) ==
    LET ps == Get(lastResp.body, "Settings", EmptyDict)
    IN  "TimeslotUtc" \in DOMAIN ps /\ ps["TimeslotUtc"] = v

\* the app-settings response holds the timestamp v
TimestampReturned(v) ==
    /\ "CombinedProductsAndSitecoreTimestamp" \in DOMAIN settings
    /\ settings["CombinedProductsAndSitecoreTimestamp"] = v

\* C13: the timeslot identifier and the timestamp sent with a search request
\* are the values the service returned in the page-settings fetch of the same
\* search call, whatever the service responded.
C13_SearchParamsFromService ==
    [][pc = "Search" =>
          LET req == reqs'[Len(reqs')]
          IN  /\ req.url = SearchUrl
              /\ TimeslotReturned(req.params.timeslotUtc)
              /\ TimestampReturned(req.params.timestamp)]_vars

====
